---- MODULE Spec2Model ----
(***************************************************************************)
(* Model of opnsensewireguard.py: one invocation of main() adds a peer to  *)
(* a WireGuard server stored in config.xml.  The configuration file and    *)
(* its backup are the shared state; every invocation ("run") has its own   *)
(* parsed tree, server_conf / client_conf and position in main().          *)
(***************************************************************************)
EXTENDS Integers, Sequences, FiniteSets, TLC

\* ------------------------------------------------------------------ bounds
\* width of an address in bits (IPv4 has 32)
AddrBits == 3
\* peers already in the document when the model starts
MaxPeers == 2
\* invocations of the script per operator
MaxRuns == 2

Runs == {1, 2}
Pow2(n) == 2 ^ n

\* ------------------------------------------------------- ipaddress module
\* A tunneladdress string: form "none" is a missing element (findtext gives
\* None), "garbage" a text ipaddress rejects, "bare" is "a.b.c.d", "prefix"
\* is "a.b.c.d/len" and "netmask" is "a.b.c.d/255.255.255.0" (len is the
\* prefix length the mask stands for).
TA(form, ip, len) == [form |-> form, ip |-> ip, len |-> len]
NoText == TA("none", 0, 0)
Garbage == TA("garbage", 0, 0)

\* prefix length ip_network reads from the string
PrefixLen(s) == IF s.form = "bare" THEN AddrBits ELSE s.len
NetSize(len) == Pow2(AddrBits - len)
NetworkAddress(ip, len) == ip - (ip % NetSize(len))

\* ipaddress.ip_network(s, strict=False) raises ValueError
NetworkParses(s) == s.form \in {"bare", "prefix", "netmask"}
\* ipaddress.ip_network(s) (strict): host bits set is a ValueError too
StrictNetworkParses(s) ==
    /\ NetworkParses(s)
    /\ NetworkAddress(s.ip, PrefixLen(s)) = s.ip

\* list(net.hosts()): ascending; a /32 yields its one address, a /31 both,
\* any other network everything but the network and broadcast addresses
Hosts(ip, len) ==
    LET net == NetworkAddress(ip, len)
        size == NetSize(len)
    IN  IF len = AddrBits THEN << net >>
        ELSE IF len = AddrBits - 1 THEN << net, net + 1 >>
        ELSE [i \in 1 .. (size - 2) |-> net + i]

\* tunneladdress.replace(f"/{netmask}", ""): only the "/len" text is removed
StripPrefix(s, netmask) ==
    IF s.form = "prefix" /\ s.len = netmask THEN TA("bare", s.ip, 0) ELSE s

\* ipaddress.ip_address(s) accepts an address without any mask
AddressParses(s) == s.form = "bare"

\* ------------------------------------------------------------------ lists
Range(seq) == {seq[i] : i \in 1 .. Len(seq)}
Contains(seq, x) == x \in Range(seq)
IndexOf(seq, x) == CHOOSE i \in 1 .. Len(seq) : seq[i] = x /\ \A j \in 1 .. (i - 1) : seq[j] # x
\* list.remove(x): drops the first occurrence (the caller handles ValueError)
ListRemove(seq, x) ==
    LET k == IndexOf(seq, x)
    IN  [i \in 1 .. (Len(seq) - 1) |-> IF i < k THEN seq[i] ELSE seq[i + 1]]
RemoveAt(seq, k) == [i \in 1 .. (Len(seq) - 1) |-> IF i < k THEN seq[i] ELSE seq[i + 1]]

\* ------------------------------------------------------- the peers string
\* The text of <peers>: a string over identifiers (one character each, a
\* positive number) and the comma (0).
Comma == 0
RECURSIVE SplitComma(_)
\* str.split(","): the pieces between commas, empty pieces kept
SplitComma(text) ==
    IF \A i \in 1 .. Len(text) : text[i] # Comma THEN << text >>
    ELSE LET k == CHOOSE i \in 1 .. Len(text) :
                      text[i] = Comma /\ \A j \in 1 .. (i - 1) : text[j] # Comma
         IN  << SubSeq(text, 1, k - 1) >> \o SplitComma(SubSeq(text, k + 1, Len(text)))
RECURSIVE JoinComma(_)
\* ",".join(list)
JoinComma(list) ==
    IF Len(list) = 0 THEN << >>
    ELSE IF Len(list) = 1 THEN list[1]
    ELSE list[1] \o << Comma >> \o JoinComma(Tail(list))
CountComma(text) == Cardinality({i \in 1 .. Len(text) : text[i] = Comma})

\* the <peers> element: present or not, and its text
PeersField(present, text) == [present |-> present, text |-> text]

\* parse_server_details, lines 424-430
ParsePeers(field) ==
    IF ~field.present \/ field.text = << >> THEN << >>
    ELSE IF CountComma(field.text) = 0 THEN << field.text >>
    ELSE SplitComma(field.text)

\* --------------------------------------------------------- whitespace tokens
\* text / tail of an element: None, or a newline followed by n copies of one
\* character
WS(ch, n) == [ch |-> ch, n |-> n]
None == WS("none", 0)
\* "\n" + (indent * level) with indent = "  "
Spaces(level) == WS("sp", 2 * level)
\* root_tail.count("  ")
CountIndent(ws) == IF ws.ch = "sp" THEN ws.n \div 2 ELSE 0

\* ------------------------------------------------------------ the document
\* indentation the document was written with: the unit repeated per depth
Style(ch, k) == [ch |-> ch, k |-> k]
TwoSpaces == Style("sp", 2)
Styles == {TwoSpaces, Style("sp", 4), Style("tab", 1), Style("none", 0)}
Ind(style, depth) == IF style.ch = "none" THEN None ELSE WS(style.ch, style.k * depth)

\* a <client uuid=...> node under <clients>: its text and tail, and the tails
\* of its fields (ftail) and of its last field (ltail)
ClientNode(uuid, ta, text, tail, ftail, ltail) ==
    [uuid |-> uuid, tunneladdress |-> ta, text |-> text, tail |-> tail,
     ftail |-> ftail, ltail |-> ltail]

\* config.xml as far as main() reads it: the selected <server> record's
\* fields, the <clients> container (cText, cTail) and its children
Doc(pubkey, ta, port, peers, cText, cTail, clients) ==
    [valid |-> TRUE, pubkey |-> pubkey, tunneladdress |-> ta, port |-> port,
     peers |-> peers, cText |-> cText, cTail |-> cTail, clients |-> clients]
\* a file a failed write left truncated: it no longer parses
Truncated ==
    [valid |-> FALSE, pubkey |-> "absent", tunneladdress |-> NoText, port |-> "absent",
     peers |-> PeersField(FALSE, << >>), cText |-> None, cTail |-> None, clients |-> << >>]

\* <clients> sits at depth 4 of the appliance's document, its children at 5
\* and their fields at 6; `last` says whether <clients> is the last child of
\* its parent (its tail then un-indents to depth 3)
FormattedClients(tas, style) ==
    [i \in 1 .. Len(tas) |->
        ClientNode(i, tas[i], Ind(style, 6),
                   IF i = Len(tas) THEN Ind(style, 4) ELSE Ind(style, 5),
                   Ind(style, 6), Ind(style, 5))]
MkDoc(pubkey, ta, port, peers, tas, style, last) ==
    Doc(pubkey, ta, port, peers,
        IF Len(tas) = 0 THEN None ELSE Ind(style, 5),
        IF last THEN Ind(style, 3) ELSE Ind(style, 4),
        FormattedClients(tas, style))

\* the identifier of a peer as the text of its uuid attribute
UuidText(id) == << id >>
RECURSIVE ListedText(_, _)
\* the <peers> text listing the peers whose flag is set, in document order
ListedText(flags, i) ==
    IF i > Len(flags) THEN << >>
    ELSE LET rest == ListedText(flags, i + 1)
         IN  IF ~flags[i] THEN rest
             ELSE IF rest = << >> THEN UuidText(i)
             ELSE UuidText(i) \o << Comma >> \o rest

FieldVals == {"absent", "empty", "set"}
\* server addresses: a.b.c.1 (or .0) in blocks of several sizes, written
\* with a prefix length, with a netmask, or without a mask
ServerTAs ==
    {TA("prefix", 1, len) : len \in {0, AddrBits - 2, AddrBits - 1, AddrBits}}
        \cup {TA("prefix", 0, AddrBits - 2), TA("netmask", 1, 0),
              TA("netmask", 1, AddrBits - 2), TA("bare", 1, 0)}
PeerTAs ==
    {TA("bare", ip, 0) : ip \in {1, 2, 3, 5}}
        \cup {TA("prefix", 2, AddrBits - 1), TA("prefix", 3, AddrBits - 1), Garbage}
\* a peer of the initial document: its address, and whether the server lists it
PeerChoices ==
    {[ta |-> ta, listed |-> TRUE] : ta \in PeerTAs}
        \cup {[ta |-> TA("bare", 2, 0), listed |-> FALSE]}
SeqsUpTo(S, n) == UNION {[1 .. k -> S] : k \in 0 .. n}

\* documents whose server record is incomplete or invalid
ValidationDocs ==
    {MkDoc(pk, ta, port, PeersField(TRUE, << >>), << >>, TwoSpaces, TRUE) :
        pk \in FieldVals, port \in FieldVals,
        ta \in {NoText, Garbage, TA("prefix", 1, 0)}}
\* documents with a valid server record and peers, listed by it or not
PeerDocs ==
    {LET text == ListedText([i \in 1 .. Len(ps) |-> ps[i].listed], 1)
     IN  MkDoc("set", ta, "set", PeersField(present \/ text # << >>, text),
               [i \in 1 .. Len(ps) |-> ps[i].ta], TwoSpaces, TRUE) :
        ta \in ServerTAs, present \in BOOLEAN, ps \in SeqsUpTo(PeerChoices, MaxPeers)}
\* well-formed documents in each indentation style
StyledDocs ==
    {MkDoc("set", TA("prefix", 1, 0), "set",
           PeersField(TRUE, ListedText([i \in 1 .. k |-> TRUE], 1)),
           [i \in 1 .. k |-> TA("bare", i + 1, 0)], style, last) :
        k \in 0 .. MaxPeers, style \in Styles, last \in BOOLEAN}

\* ------------------------------------------------------------------ state
VARIABLES
    disk,      \* content of /conf/config.xml
    backup,    \* content of /conf/config.wgback
    nextId,    \* the next identifier uuid.uuid4() returns
    started,   \* invocations started so far
    pc,        \* pc[r]: where run r is in main()
    tree,      \* tree[r]: the parsed document of run r
    conf,      \* conf[r]: server_conf and client_conf of run r
    errors,    \* errors[r]: error_message of parse_server_details
    outcome,   \* outcome[r]: how run r ended
    io,        \* io[r]: the file and process steps run r has performed
    orig       \* orig[r]: the file's content when run r started

vars == << disk, backup, nextId, started, pc, tree, conf, errors, outcome, io, orig >>

NoConf ==
    [peers |-> << >>, net_range |-> << >>, netmask |-> 0, client_count |-> 0,
     safe_ip |-> -1, uuid |-> 0]
NoIo ==
    [backed |-> FALSE, wrote |-> "no", restored |-> "no",
     profile |-> FALSE, restart |-> "no"]

InitRuns ==
    /\ backup = Truncated
    /\ nextId = MaxPeers + 1
    /\ started = 0
    /\ pc = [r \in Runs |-> "idle"]
    /\ tree = [r \in Runs |-> Truncated]
    /\ conf = [r \in Runs |-> NoConf]
    /\ errors = [r \in Runs |-> << >>]
    /\ outcome = [r \in Runs |-> "none"]
    /\ io = [r \in Runs |-> NoIo]
    /\ orig = [r \in Runs |-> Truncated]

Init ==
    /\ disk \in ValidationDocs \cup PeerDocs \cup StyledDocs
    /\ InitRuns

\* --------------------------------------------------- parse_server_details
\* lines 403-418: the hosts of the server's block, with the server's own
\* address removed when the text left after stripping the mask is an address
\* of the list (a ValueError is passed over)
ServerRange(ta) ==
    LET netmask == PrefixLen(ta)
        net_range == Hosts(ta.ip, netmask)
        addr == StripPrefix(ta, netmask)
    IN  IF AddressParses(addr) /\ Contains(net_range, addr.ip)
        THEN ListRemove(net_range, addr.ip)
        ELSE net_range

\* error_message as the function builds it up to the point where it stops
ServerErrors(doc) ==
    (IF doc.pubkey = "absent" THEN << "public key (pubkey)" >> ELSE << >>)
        \o (IF doc.tunneladdress.form = "none" THEN << "tunneladdress" >> ELSE << >>)
        \o (IF ~NetworkParses(doc.tunneladdress) THEN << "available ip range" >> ELSE << >>)
        \o (IF NetworkParses(doc.tunneladdress) /\ doc.port = "absent"
            THEN << "port" >> ELSE << >>)

\* "crash": net is unbound at line 404 and the function raises before it
\* prints anything; "invalid": the errors are printed and the run exits
ParseStatus(doc) ==
    IF ~NetworkParses(doc.tunneladdress) THEN "crash"
    ELSE IF Len(ServerErrors(doc)) # 0 THEN "invalid"
    ELSE "ok"

ParseServerDetails(doc) ==
    [peers |-> ParsePeers(doc.peers),
     net_range |-> ServerRange(doc.tunneladdress),
     netmask |-> PrefixLen(doc.tunneladdress),
     client_count |-> 0, safe_ip |-> -1, uuid |-> 0]

\* ------------------------------------------------------ main, lines 131-148
Excluded(ok, net_range, count) == [ok |-> ok, net_range |-> net_range, count |-> count]

\* the same step with the ValueError passed over, as line 415 does
RemoveUsedIgnoring(net_range, ip, count) ==
    IF Contains(net_range, ip)
    THEN Excluded(TRUE, ListRemove(net_range, ip), count)
    ELSE Excluded(TRUE, net_range, count)

\* line 138: net_range.remove(used_client_ip) inside the bare except
RemoveUsed(net_range, ip, count) ==
    IF Contains(net_range, ip)
    THEN Excluded(TRUE, ListRemove(net_range, ip), count)
    ELSE Excluded(FALSE, net_range, count)

\* a choice of the highest address left instead of the lowest
SafeIpLast(net_range) == net_range[Len(net_range)]
\* line 145: safe_ip = net_range[0]
SafeIp(net_range) == net_range[1]

RECURSIVE ExcludePeers(_, _, _, _, _)
\* the loop over the <clients> children, from child i on
ExcludePeers(clients, i, peers, net_range, count) ==
    IF i > Len(clients) THEN Excluded(TRUE, net_range, count)
    ELSE IF ~Contains(peers, UuidText(clients[i].uuid))
         THEN ExcludePeers(clients, i + 1, peers, net_range, count)
    ELSE IF ~StrictNetworkParses(clients[i].tunneladdress)
         THEN Excluded(FALSE, net_range, count + 1)
    ELSE LET step == RemoveUsed(net_range, clients[i].tunneladdress.ip, count + 1)
         IN  IF ~step.ok THEN step
             ELSE ExcludePeers(clients, i + 1, peers, step.net_range, step.count)

\* ------------------------------------------------ add_formatted_subelement
\* root_tail.count(indent) on a tail of None raises AttributeError
FormatCrashes(doc) == doc.cTail.ch = "none"
Level(doc) == CountIndent(doc.cTail) + 1

\* lines 373-378: every child of the container gets the element level, the
\* last one the container's level
Relevel(clients, level) ==
    [i \in 1 .. Len(clients) |->
        [clients[i] EXCEPT !.tail = IF i = Len(clients) THEN Spaces(level)
                                    ELSE Spaces(level + 1)]]

\* called with indent = "  " (line 230)
AddFormattedSubelement(doc, uuid, ta) ==
    LET level == Level(doc)
        element == ClientNode(uuid, ta, Spaces(level + 2), None,
                              Spaces(level + 2), Spaces(level + 1))
    IN  [doc EXCEPT !.clients = Relevel(Append(doc.clients, element), level)]

\* ------------------------------------------------------------- file steps
\* a write that would keep the peers the file holds beside the tree's own
WrittenMerged(t, old) ==
    IF ~old.valid THEN t
    ELSE LET Extra(c) == \A i \in 1 .. Len(t.clients) : t.clients[i].uuid # c.uuid
         IN  [t EXCEPT !.clients = SelectSeq(old.clients, Extra) \o t.clients]
\* tree.write(opnsense_config_xml): the file becomes the serialized tree
WrittenContent(t, old) == t
\* a restore that leaves the file as the failed write left it
RestoredNothing(bak, old) == old
\* shutil.copy2(backup, opnsense_config_xml)
RestoredContent(bak, old) == bak
\* a failed backup that does not stop the run
AfterBackupFailureGoesOn == "backed_up"
\* line 209: a failed backup ends the run
AfterBackupFailure == "aborted"
\* line 253: after a restore that worked, main() goes on
AfterRestore == "saved"

\* ---------------------------------------------------------------- actions
Abort(r, why) ==
    /\ pc' = [pc EXCEPT ![r] = "aborted"]
    /\ outcome' = [outcome EXCEPT ![r] = why]
Goto(r, where) ==
    /\ pc' = [pc EXCEPT ![r] = where]
    /\ UNCHANGED outcome

\* lines 45-65: the script is started; the package prompt may be answered q
StartRun(r) ==
    /\ pc[r] = "idle"
    /\ started < MaxRuns
    /\ started' = started + 1
    /\ orig' = [orig EXCEPT ![r] = disk]
    /\ \/ Goto(r, "started")
       \/ Abort(r, "UserQuit")
    /\ UNCHANGED << disk, backup, nextId, tree, conf, errors, io >>

\* lines 67-90: read and parse config.xml
LoadConfig(r) ==
    /\ pc[r] = "started"
    /\ \/ /\ disk.valid
          /\ tree' = [tree EXCEPT ![r] = disk]
          /\ Goto(r, "loaded")
       \/ /\ ~disk.valid
          /\ Abort(r, "MalformedDocument")
          /\ UNCHANGED tree
       \/ /\ Abort(r, "InputUnreadable")
          /\ UNCHANGED tree
    /\ UNCHANGED << disk, backup, nextId, started, conf, errors, io, orig >>

\* lines 91-125: the document holds one server, instance 0, so
\* servers_count = 1; the operator's answer is 0, 1 (passes the range check,
\* matches nothing: IndexError) or something the check refuses
SelectServer(r) ==
    /\ pc[r] = "loaded"
    /\ \E this_instance \in {"0", "1", "refused"} :
          IF this_instance = "refused" THEN Abort(r, "UserQuit")
          ELSE IF this_instance = "1" THEN Abort(r, "ServerNotFound")
          ELSE Goto(r, "selected")
    /\ UNCHANGED << disk, backup, nextId, started, tree, conf, errors, io, orig >>

\* line 128: parse_server_details(server)
ParseServer(r) ==
    /\ pc[r] = "selected"
    /\ errors' = [errors EXCEPT ![r] = ServerErrors(tree[r])]
    /\ \/ /\ ParseStatus(tree[r]) = "crash"
          /\ Abort(r, "ParseCrash")
          /\ UNCHANGED conf
       \/ /\ ParseStatus(tree[r]) = "invalid"
          /\ Abort(r, "ValidationFailed")
          /\ UNCHANGED conf
       \/ /\ ParseStatus(tree[r]) = "ok"
          /\ conf' = [conf EXCEPT ![r] = ParseServerDetails(tree[r])]
          /\ Goto(r, "parsed")
    /\ UNCHANGED << disk, backup, nextId, started, tree, io, orig >>

\* lines 131-148: remove the listed peers' addresses, take net_range[0]
\* (IndexError on an empty list) and draw the new peer's uuid
AllocateAddress(r) ==
    /\ pc[r] = "parsed"
    /\ LET ex == ExcludePeers(tree[r].clients, 1, conf[r].peers, conf[r].net_range, 0)
       IN  \/ /\ ~ex.ok
              /\ Abort(r, "PeerFailed")
              /\ conf' = [conf EXCEPT ![r].client_count = ex.count]
              /\ UNCHANGED nextId
           \/ /\ ex.ok
              /\ Len(ex.net_range) = 0
              /\ Abort(r, "NoAddressAvailable")
              /\ conf' = [conf EXCEPT ![r].client_count = ex.count,
                                      ![r].net_range = ex.net_range]
              /\ UNCHANGED nextId
           \/ /\ ex.ok
              /\ Len(ex.net_range) > 0
              /\ conf' = [conf EXCEPT ![r].client_count = ex.count,
                                      ![r].net_range = ex.net_range,
                                      ![r].safe_ip = SafeIp(ex.net_range),
                                      ![r].uuid = nextId]
              /\ nextId' = nextId + 1
              /\ Goto(r, "allocated")
    /\ UNCHANGED << disk, backup, started, tree, errors, io, orig >>

\* lines 150-161: wg genkey, wg pubkey, wg genpsk
GenerateKeys(r) ==
    /\ pc[r] = "allocated"
    /\ \/ Goto(r, "keyed")
       \/ Abort(r, "KeyGenerationFailed")
    /\ UNCHANGED << disk, backup, nextId, started, tree, conf, errors, io, orig >>

\* lines 163-201: endpoint, dns and name prompts, then "are you sure"
Confirm(r) ==
    /\ pc[r] = "keyed"
    /\ \/ Goto(r, "confirmed")
       \/ Abort(r, "UserQuit")
    /\ UNCHANGED << disk, backup, nextId, started, tree, conf, errors, io, orig >>

\* lines 204-210: copy config.xml to config.wgback
BackupConfig(r) ==
    /\ pc[r] = "confirmed"
    /\ \/ /\ backup' = disk
          /\ io' = [io EXCEPT ![r].backed = TRUE]
          /\ Goto(r, "backed_up")
       \/ /\ pc' = [pc EXCEPT ![r] = AfterBackupFailure]
          /\ outcome' = [outcome EXCEPT ![r] = "BackupFailed"]
          /\ UNCHANGED << backup, io >>
    /\ UNCHANGED << disk, nextId, started, tree, conf, errors, orig >>

\* lines 212-236: insert the new <client> and rewrite the server's <peers>;
\* server.find('peers') is None when the element is missing (AttributeError)
EditTree(r) ==
    /\ pc[r] = "backed_up"
    /\ \/ /\ FormatCrashes(tree[r])
          /\ Abort(r, "EditCrash")
          /\ UNCHANGED << tree, conf >>
       \/ /\ ~FormatCrashes(tree[r])
          /\ LET inserted == AddFormattedSubelement(tree[r], conf[r].uuid,
                                                    TA("prefix", conf[r].safe_ip, AddrBits))
                 peers == Append(conf[r].peers, UuidText(conf[r].uuid))
             IN  /\ conf' = [conf EXCEPT ![r].peers = peers]
                 /\ IF tree[r].peers.present
                    THEN /\ tree' = [tree EXCEPT ![r] =
                                [inserted EXCEPT !.peers = PeersField(TRUE, JoinComma(peers))]]
                         /\ Goto(r, "edited")
                    ELSE /\ tree' = [tree EXCEPT ![r] = inserted]
                         /\ Abort(r, "EditCrash")
    /\ UNCHANGED << disk, backup, nextId, started, errors, io, orig >>

\* lines 238-243: tree.write; a failed write leaves the file as it was or
\* truncated
WriteConfig(r) ==
    /\ pc[r] = "edited"
    /\ \/ /\ disk' = WrittenContent(tree[r], disk)
          /\ io' = [io EXCEPT ![r].wrote = "ok"]
          /\ Goto(r, "saved")
       \/ /\ disk' \in {disk, Truncated}
          /\ io' = [io EXCEPT ![r].wrote = "failed"]
          /\ Goto(r, "write_failed")
    /\ UNCHANGED << backup, nextId, started, tree, conf, errors, orig >>

\* lines 245-251: copy the backup over config.xml
RestoreBackup(r) ==
    /\ pc[r] = "write_failed"
    /\ \/ /\ disk' = RestoredContent(backup, disk)
          /\ io' = [io EXCEPT ![r].restored = "ok"]
          /\ pc' = [pc EXCEPT ![r] = AfterRestore]
          /\ UNCHANGED outcome
       \/ /\ disk' \in {disk, Truncated}
          /\ io' = [io EXCEPT ![r].restored = "failed"]
          /\ Abort(r, "UnrecoverableState")
    /\ UNCHANGED << backup, nextId, started, tree, conf, errors, orig >>

\* lines 253-297: write the client's .conf, restart wireguard (a failed
\* restart is only reported), show the QR code, report success
PostCommit(r) ==
    /\ pc[r] = "saved"
    /\ \E restarted \in {"ok", "failed"} :
          io' = [io EXCEPT ![r].profile = TRUE, ![r].restart = restarted]
    /\ pc' = [pc EXCEPT ![r] = "done"]
    /\ outcome' = [outcome EXCEPT ![r] = "Success"]
    /\ UNCHANGED << disk, backup, nextId, started, tree, conf, errors, orig >>

\* the process has exited; the operator may start the script again
Exit(r) ==
    /\ pc[r] \in {"done", "aborted"}
    /\ pc' = [pc EXCEPT ![r] = "idle"]
    /\ tree' = [tree EXCEPT ![r] = Truncated]
    /\ conf' = [conf EXCEPT ![r] = NoConf]
    /\ errors' = [errors EXCEPT ![r] = << >>]
    /\ outcome' = [outcome EXCEPT ![r] = "none"]
    /\ io' = [io EXCEPT ![r] = NoIo]
    /\ orig' = [orig EXCEPT ![r] = Truncated]
    /\ UNCHANGED << disk, backup, nextId, started >>

\* the <peers> text with identifier id taken out, as the appliance's GUI
\* writes it when a peer is deleted
WithoutPeer(field, id) ==
    LET list == ParsePeers(field)
        Keep(x) == x # UuidText(id)
    IN  PeersField(field.present, JoinComma(SelectSeq(list, Keep)))

\* a peer is deleted in the appliance's GUI while no run is in progress
DeletePeer ==
    /\ \A r \in Runs : pc[r] = "idle"
    /\ disk.valid
    /\ \E k \in 1 .. Len(disk.clients) :
          disk' = [disk EXCEPT !.clients = RemoveAt(disk.clients, k),
                               !.peers = WithoutPeer(disk.peers, disk.clients[k].uuid)]
    /\ UNCHANGED << backup, nextId, started, pc, tree, conf, errors, outcome, io, orig >>

Step(r) ==
    \/ StartRun(r)
    \/ LoadConfig(r)
    \/ SelectServer(r)
    \/ ParseServer(r)
    \/ AllocateAddress(r)
    \/ GenerateKeys(r)
    \/ Confirm(r)
    \/ BackupConfig(r)
    \/ EditTree(r)
    \/ WriteConfig(r)
    \/ RestoreBackup(r)
    \/ PostCommit(r)
    \/ Exit(r)

\* one operator, one invocation at a time (section 5 of the design)
Next == Step(1) \/ DeletePeer
Spec == Init /\ [][Next]_vars

\* two invocations at once on the same file: nothing in main() locks it
NextConc == Step(1) \/ Step(2) \/ DeletePeer
ConcDocs ==
    {MkDoc("set", TA("prefix", 1, 0), "set",
           PeersField(TRUE, ListedText([i \in 1 .. k |-> TRUE], 1)),
           [i \in 1 .. k |-> TA("bare", i + 1, 0)], TwoSpaces, TRUE) : k \in 0 .. MaxPeers}
InitConc ==
    /\ disk \in ConcDocs
    /\ InitRuns
SpecConc == InitConc /\ [][NextConc]_vars

\* ------------------------------------------------------------- properties
\* the peers of doc that its server lists, as indices into doc.clients
Listed(doc) ==
    {i \in 1 .. Len(doc.clients) :
        Contains(ParsePeers(doc.peers), UuidText(doc.clients[i].uuid))}
ServerAddress(doc) == doc.tunneladdress.ip
BlockHosts(doc) == Range(Hosts(doc.tunneladdress.ip, PrefixLen(doc.tunneladdress)))
\* the exclusion set: the server's address and the listed peers' addresses
ExclusionSet(doc) ==
    {ServerAddress(doc)} \cup {doc.clients[i].tunneladdress.ip : i \in Listed(doc)}
Min(S) == CHOOSE x \in S : \A y \in S : x <= y

\* the server's address and the listed peers' addresses are all readable
\* and pairwise distinct
DistinctAddresses(doc) ==
    /\ doc.valid
    /\ NetworkParses(doc.tunneladdress)
    /\ \A i \in Listed(doc) :
          /\ StrictNetworkParses(doc.clients[i].tunneladdress)
          /\ doc.clients[i].tunneladdress.ip # ServerAddress(doc)
          /\ \A j \in Listed(doc) :
                i # j => doc.clients[i].tunneladdress.ip # doc.clients[j].tunneladdress.ip

\* C1: a committed run started on a document whose server and listed peers
\* have pairwise distinct addresses leaves a document in which they still are
C1_AddressesStayDistinct ==
    \A r \in Runs :
        (io[r].wrote = "ok" /\ DistinctAddresses(orig[r])) => DistinctAddresses(disk)

\* run r has gone through the peer loop and the allocation that follows it
AllocationDecided(r) == conf[r].safe_ip # -1 \/ outcome[r] = "NoAddressAvailable"
\* run r has gone through the loop over the listed peers
PeerLoopDone(r) == AllocationDecided(r) \/ outcome[r] = "PeerFailed"
\* the server's block is written in CIDR form: an address with a prefix
\* length, or an address alone
Cidr(doc) == doc.tunneladdress.form \in {"prefix", "bare"}
Unparseable(doc, i) == ~StrictNetworkParses(doc.clients[i].tunneladdress)
\* the listed peers' addresses are pairwise distinct hosts of the block
\* other than the server's address
ExclusionsInBlock(doc) ==
    \A i \in Listed(doc) :
        /\ ~Unparseable(doc, i)
        /\ doc.clients[i].tunneladdress.ip \in BlockHosts(doc) \ {ServerAddress(doc)}
        /\ \A j \in Listed(doc) :
              i # j => doc.clients[i].tunneladdress.ip # doc.clients[j].tunneladdress.ip
\* the result the claim asks of run r on document doc
LowestFreeOrNone(r, doc) ==
    LET free == BlockHosts(doc) \ ExclusionSet(doc)
    IN  IF free = {}
        THEN outcome[r] = "NoAddressAvailable" /\ pc[r] = "aborted"
        ELSE conf[r].safe_ip = Min(free) /\ outcome[r] # "NoAddressAvailable"

\* C2 (as stated): for every CIDR block and every exclusion set, allocation
\* yields the lowest host of the block outside the set, and fails with
\* NoAddressAvailable exactly when no such host exists
C2_LowestFreeForEverySet ==
    \A r \in Runs :
        ( /\ PeerLoopDone(r)
          /\ Cidr(orig[r])
          /\ \A i \in Listed(orig[r]) : ~Unparseable(orig[r], i) )
            => LowestFreeOrNone(r, orig[r])
\* C2 (amended): the same, for exclusion sets whose peer addresses are
\* pairwise distinct hosts of the block other than the server's address
C2_LowestFreeAddress ==
    \A r \in Runs :
        (PeerLoopDone(r) /\ Cidr(orig[r]) /\ ExclusionsInBlock(orig[r]))
            => LowestFreeOrNone(r, orig[r])
\* an address below a listed peer's is free and is the one chosen
C2_Witness ==
    \E r \in Runs :
        /\ pc[r] = "allocated"
        /\ Cidr(orig[r])
        /\ ExclusionsInBlock(orig[r])
        /\ \E i \in Listed(orig[r]) : orig[r].clients[i].tunneladdress.ip > conf[r].safe_ip
        /\ conf[r].safe_ip = Min(BlockHosts(orig[r]) \ ExclusionSet(orig[r]))

\* C3: after a failed write and a restore that worked the file is what it
\* was before the run; a failed restore ends the run as UnrecoverableState
C3_RollbackRestores ==
    \A r \in Runs :
        /\ (io[r].wrote = "failed" /\ io[r].restored = "ok") =>
              (disk = orig[r] /\ disk = backup)
        /\ io[r].restored = "failed" =>
              (pc[r] = "aborted" /\ outcome[r] = "UnrecoverableState" /\ ~io[r].profile)
\* a write failed, the restore worked and the file is the original again
C3_Witness ==
    \E r \in Runs :
        /\ io[r].wrote = "failed"
        /\ io[r].restored = "ok"
        /\ disk.valid
        /\ disk = orig[r]

\* C4: the file is written only by a run whose backup succeeded, and a run
\* that has not reached the write step leaves the file as it found it
C4_WriteOnlyAfterBackup ==
    \A r \in Runs :
        /\ io[r].wrote # "no" => io[r].backed
        /\ (pc[r] # "idle" /\ io[r].wrote = "no") => disk = orig[r]
\* a run stopped by a failed backup, the file untouched
C4_Witness ==
    \E r \in Runs :
        /\ pc[r] = "aborted"
        /\ outcome[r] = "BackupFailed"
        /\ ~io[r].backed
        /\ disk.valid
        /\ disk = orig[r]

\* C5: the steps that follow a commit (client profile, restart, success
\* report) happen only in runs whose write succeeded
C5_PostCommitOnlyWhenCommitted ==
    \A r \in Runs :
        (io[r].profile \/ io[r].restart # "no" \/ outcome[r] = "Success") =>
            io[r].wrote = "ok"

\* run r has inserted the new <client> node into its tree
Inserted(r) ==
    /\ pc[r] \in {"edited", "write_failed", "saved", "done", "aborted"}
    /\ orig[r].valid
    /\ Len(tree[r].clients) = Len(orig[r].clients) + 1

\* C6: the insertion leaves the container's own tokens and every token of
\* every earlier child unchanged, but for the tail of the former last child
C6_InsertionPreservesFormatting ==
    \A r \in Runs :
        Inserted(r) =>
            /\ tree[r].cText = orig[r].cText
            /\ tree[r].cTail = orig[r].cTail
            /\ \A i \in 1 .. Len(orig[r].clients) :
                  IF i = Len(orig[r].clients)
                  THEN [tree[r].clients[i] EXCEPT !.tail = orig[r].clients[i].tail]
                           = orig[r].clients[i]
                  ELSE tree[r].clients[i] = orig[r].clients[i]

\* the fields of the server record that are missing or invalid
BadFields(doc) ==
    {f \in {"pubkey", "tunneladdress", "port"} :
        \/ f = "pubkey" /\ doc.pubkey # "set"
        \/ f = "tunneladdress" /\ ~NetworkParses(doc.tunneladdress)
        \/ f = "port" /\ doc.port # "set"}
\* the lines of error_message that name a field
Names(f) ==
    IF f = "pubkey" THEN {"public key (pubkey)"}
    ELSE IF f = "tunneladdress" THEN {"tunneladdress", "available ip range"}
    ELSE {"port"}
\* run r has gone through parse_server_details
Validated(r) ==
    \/ pc[r] \in {"parsed", "allocated", "keyed", "confirmed", "backed_up", "edited",
                  "write_failed", "saved", "done"}
    \/ outcome[r] \in {"ParseCrash", "ValidationFailed", "PeerFailed", "NoAddressAvailable",
                       "KeyGenerationFailed", "BackupFailed", "EditCrash",
                       "UnrecoverableState"}

\* C7: a server record with missing or invalid fields fails validation with
\* one ValidationFailed error that names each of them
C7_ValidationAggregates ==
    \A r \in Runs :
        (Validated(r) /\ BadFields(orig[r]) # {}) =>
            /\ outcome[r] = "ValidationFailed"
            /\ \A f \in BadFields(orig[r]) : Names(f) \cap Range(errors[r]) # {}

\* the addresses parse_server_details leaves in net_range: the block's hosts,
\* without the server's address when it is written "a.b.c.d" or "a.b.c.d/len"
Candidates(doc) ==
    BlockHosts(doc) \
        (IF doc.tunneladdress.form \in {"bare", "prefix"} THEN {ServerAddress(doc)} ELSE {})
\* peer i's address parses but is no candidate any more
NotACandidate(doc, i) ==
    /\ ~Unparseable(doc, i)
    /\ \/ doc.clients[i].tunneladdress.ip \notin Candidates(doc)
       \/ \E j \in Listed(doc) :
             /\ j < i
             /\ ~Unparseable(doc, j)
             /\ doc.clients[j].tunneladdress.ip = doc.clients[i].tunneladdress.ip

\* C8 (as stated): the peer loop aborts exactly when a listed peer's address
\* cannot be parsed
C8_AbortsOnlyOnUnparseable ==
    \A r \in Runs :
        PeerLoopDone(r) =>
            (outcome[r] = "PeerFailed" <=> \E i \in Listed(orig[r]) : Unparseable(orig[r], i))
\* C8 (amended): the peer loop aborts exactly when a listed peer's address
\* cannot be parsed or is not among the remaining candidate addresses
C8_AbortsOnUnparseableOrAbsent ==
    \A r \in Runs :
        PeerLoopDone(r) =>
            (outcome[r] = "PeerFailed" <=>
                \E i \in Listed(orig[r]) : Unparseable(orig[r], i) \/ NotACandidate(orig[r], i))
\* a run aborted although every listed peer's address parses
C8_Witness ==
    \E r \in Runs :
        /\ outcome[r] = "PeerFailed"
        /\ \A i \in Listed(orig[r]) : ~Unparseable(orig[r], i)
        /\ \E i \in Listed(orig[r]) : NotACandidate(orig[r], i)

\* the <peers> text with identifier id added after what it held
WithPeer(field, id) ==
    IF ~field.present \/ field.text = << >> THEN UuidText(id)
    ELSE field.text \o << Comma >> \o UuidText(id)

\* C9: once the new node is inserted the server's <peers> text is its prior
\* text followed by the new node's uuid, whatever the prior text was
C9_PeersAppended ==
    \A r \in Runs :
        Inserted(r) =>
            /\ tree[r].clients[Len(tree[r].clients)].uuid = conf[r].uuid
            /\ tree[r].peers = PeersField(TRUE, WithPeer(orig[r].peers, conf[r].uuid))

\* run r holds the document as it read it, and the address it chose
Allocated(r) == pc[r] \in {"allocated", "keyed", "confirmed", "backed_up"}
HasPeer(doc, id) == \E i \in 1 .. Len(doc.clients) : doc.clients[i].uuid = id

\* C10: nothing keeps two runs apart: runs that read the same document
\* choose the same address, and a write puts the writer's own tree in place
\* of whatever the file holds
C10_NoMutualExclusion ==
    [][ /\ \A r \in Runs, q \in Runs :
              (Allocated(r) /\ Allocated(q) /\ tree[r] = tree[q]) =>
                  conf[r].safe_ip = conf[q].safe_ip
        /\ \A r \in Runs :
              (pc[r] = "edited" /\ pc'[r] = "saved") => disk' = tree[r] ]_vars
\* both runs committed a peer with the same address, and the file holds only
\* the second writer's peer
C10_Witness ==
    /\ io[1].wrote = "ok"
    /\ io[2].wrote = "ok"
    /\ conf[1].safe_ip = conf[2].safe_ip
    /\ conf[1].uuid # conf[2].uuid
    /\ disk.valid
    /\ HasPeer(disk, conf[2].uuid)
    /\ ~HasPeer(disk, conf[1].uuid)

====
